---- MODULE Spec2Model ----
(***************************************************************************)
(* Model of scripts/training.py (WeightedMSELoss, train_model) and of      *)
(* scripts/evaluation.py (permutation_importance, plot_distribution).      *)
(*                                                                         *)
(* Python floats are modelled as exact rationals n/d extended with +inf    *)
(* and NaN, with IEEE ordered comparisons (every comparison with NaN is    *)
(* false).  Rounding error of binary floating point is not modelled.       *)
(***************************************************************************)
EXTENDS Integers, Sequences, FiniteSets

(***************************************************************************)
(* Bounds of the checked instances.                                        *)
(***************************************************************************)
MaxEpochs == 4
MaxTrainBatches == 2
MaxValBatches == 2
MaxValue == 4
MaxOutput == 1
MaxBatch == 2
MaxRows == 2
MaxCols == 2
MaxSamples == 2
MaxSampleValue == 3

(***************************************************************************)
(* Floats: [k |-> "fin", n |-> numerator, d |-> denominator > 0],          *)
(* +inf and NaN.  Losses are never negative, so -inf does not occur.       *)
(***************************************************************************)
Fin(n) == [k |-> "fin", n |-> n, d |-> 1]
Inf == [k |-> "inf", n |-> 0, d |-> 1]
NaN == [k |-> "nan", n |-> 0, d |-> 1]
Zero == Fin(0)

IsNaN(a) == a.k = "nan"
IsFinite(a) == a.k = "fin"

\* a < b on floats
FLt(a, b) ==
    IF IsNaN(a) \/ IsNaN(b) THEN FALSE
    ELSE IF a.k = "inf" THEN FALSE
    ELSE IF b.k = "inf" THEN TRUE
    ELSE a.n * b.d < b.n * a.d

\* a == b on floats
FEq(a, b) ==
    IF IsNaN(a) \/ IsNaN(b) THEN FALSE
    ELSE IF a.k = "inf" \/ b.k = "inf" THEN a.k = b.k
    ELSE a.n * b.d = b.n * a.d

RECURSIVE GCD(_, _)
GCD(a, b) == IF b = 0 THEN a ELSE GCD(b, a % b)

\* the finite float n/d in lowest terms, for d > 0
Ratio(n, d) ==
    LET g == GCD(IF n < 0 THEN -n ELSE n, d)
    IN  [k |-> "fin", n |-> n \div g, d |-> d \div g]

\* a + b on non-negative floats
FAdd(a, b) ==
    IF IsNaN(a) \/ IsNaN(b) THEN NaN
    ELSE IF a.k = "inf" \/ b.k = "inf" THEN Inf
    ELSE IF a.d = b.d THEN [k |-> "fin", n |-> a.n + b.n, d |-> a.d]
    ELSE Ratio(a.n * b.d + b.n * a.d, a.d * b.d)

\* a / m for an integer m > 0
FDivInt(a, m) ==
    IF IsFinite(a) THEN [k |-> "fin", n |-> a.n, d |-> a.d * m] ELSE a

\* f'{a:.4f}': the value in units of 1/10000, rounded to nearest; "inf", "nan"
Fmt4(a) ==
    IF IsFinite(a)
    THEN [k |-> "fin", n |-> (2 * 10000 * a.n + a.d) \div (2 * a.d), d |-> 10000]
    ELSE a

(***************************************************************************)
(* State                                                                   *)
(***************************************************************************)
\* WeightedMSELoss: the five fields and the last call of forward
VARIABLES
    high_threshold,
    low_threshold,
    high_weight,
    low_weight,
    very_low_weight,
    fpc,           \* "constructed", then "returned" once forward was called
    fOutputs,      \* argument outputs of the forward call
    fTargets,      \* argument targets of the forward call
    fWeights,      \* the tensor weights of the forward call
    fLoss          \* the value the forward call returned

lossVars == <<high_threshold, low_threshold, high_weight, low_weight,
              very_low_weight, fpc, fOutputs, fTargets, fWeights, fLoss>>

\* train_model
VARIABLES
    pc,            \* position in train_model
    epochs,        \* argument epochs
    nTrain,        \* len(train_loader)
    nVal,          \* len(val_loader)
    trainVals,     \* values the loss of a training batch can take in this run
    valVals,       \* values the loss of a validation batch can take in this run
    epoch,         \* loop variable of line 39
    tb,            \* index of the current training batch
    vb,            \* index of the current validation batch
    mode,          \* model.training: "train" or "eval"
    params,        \* model parameters: their version (one per optimizer step)
    outputs,       \* batch and parameter version the predictions were made from
    grad,          \* .grad accumulators: the batches whose gradients they hold
    applied,       \* the gradient contents the last optimizer.step() applied
    loss,          \* variable loss
    val_loss,      \* variable val_loss
    best_val_loss, \* variable best_val_loss
    files,         \* contents stored at model_path (empty: no file)
    out,           \* lines written to standard output
    hist,          \* per completed epoch: mean validation loss, final parameters
    saves,         \* 1-indexed epochs in which torch.save was called
    trainLoss      \* loss of the last training batch of the current epoch

trainVars == <<pc, epochs, nTrain, nVal, trainVals, valVals, epoch, tb, vb, mode,
               params, outputs, grad, applied, loss, val_loss, best_val_loss,
               files, out, hist, saves, trainLoss>>

\* permutation_importance
VARIABLES
    ppc,              \* position in permutation_importance
    mem,              \* array buffers: "caller" holds X_test's data
    X_test_copy,      \* the buffer the name X_test_copy refers to
    X0,               \* X_test's data as it was when the call began
    y_test,           \* argument y_test
    baseline_score,
    col,              \* loop variable of line 55
    original_feature,
    shuffled_score,
    importance,
    importances,
    scored,           \* the matrices the shuffled scores were computed on
    result            \* the returned array

permVars == <<ppc, mem, X_test_copy, X0, y_test, baseline_score, col,
              original_feature, shuffled_score, importance, importances, scored,
              result>>

\* plot_distribution
VARIABLES
    opc,           \* position in plot_distribution
    actual,        \* argument y_test
    predicted,     \* argument y_test_pred
    bins,          \* bin edges, in units of 1/EdgeUnit
    hist_actual,
    hist_pred,
    overlap,
    plots,         \* image files written to results_path
    printed        \* lines written to standard output

overlapVars == <<opc, actual, predicted, bins, hist_actual, hist_pred, overlap,
                 plots, printed>>

vars == <<lossVars, trainVars, permVars, overlapVars>>

(***************************************************************************)
(* WeightedMSELoss                                                         *)
(***************************************************************************)
Values == 0..MaxValue
Thresholds == 1..(MaxValue - 1)
Outputs == 0..MaxOutput

\* high_weight, low_weight, very_low_weight: the defaults, all ones, another
WeightChoices == {<<6, 1, 3>>, <<1, 1, 1>>, <<2, 3, 1>>}

Batches(S) == UNION {[1..n -> S] : n \in 1..MaxBatch}

RECURSIVE SumTo(_, _)
SumTo(v, n) == IF n = 0 THEN 0 ELSE SumTo(v, n - 1) + v[n]

\* sum of the elements of a tensor
Sum(v) == SumTo(v, Len(v))

\* |outputs - targets| in place of the square
AbsDiff(o, t) ==
    [i \in 1..Len(o) |-> IF o[i] >= t[i] THEN o[i] - t[i] ELSE t[i] - o[i]]

\* line 16: (outputs - targets) ** 2
SquaredDiff(o, t) == [i \in 1..Len(o) |-> (o[i] - t[i]) * (o[i] - t[i])]

\* >= and <= in place of > and <
WeightInclusive(t) ==
    IF t >= high_threshold THEN high_weight
    ELSE IF t <= low_threshold THEN very_low_weight
    ELSE low_weight

\* lines 17-18: the nested torch.where, for one element
Weight(t) ==
    IF t > high_threshold THEN high_weight
    ELSE IF t < low_threshold THEN very_low_weight
    ELSE low_weight

\* lines 17-18: weights
Weights(t) == [i \in 1..Len(t) |-> Weight(t[i])]

\* line 19: weights * squared_diff
WeightedSquaredDiff(w, sq) == [i \in 1..Len(sq) |-> w[i] * sq[i]]

\* line 20: torch.mean
Mean(v) == [k |-> "fin", n |-> Sum(v), d |-> Len(v)]

\* lines 7-13: the constructor
LossInit ==
    /\ high_threshold \in Thresholds
    /\ low_threshold \in Thresholds
    /\ \E w \in WeightChoices :
          /\ high_weight = w[1]
          /\ low_weight = w[2]
          /\ very_low_weight = w[3]
    /\ fpc = "constructed"
    /\ fOutputs = <<>>
    /\ fTargets = <<>>
    /\ fWeights = <<>>
    /\ fLoss = Zero

\* line 24: the criterion of train_model (thresholds 14.5 and 4.0, in halves)
LossIdle ==
    /\ high_threshold = 29
    /\ low_threshold = 8
    /\ high_weight = 6
    /\ low_weight = 1
    /\ very_low_weight = 3
    /\ fpc = "constructed"
    /\ fOutputs = <<>>
    /\ fTargets = <<>>
    /\ fWeights = <<>>
    /\ fLoss = Zero

\* lines 15-21: forward(outputs, targets)
LossForward ==
    /\ fpc = "constructed"
    /\ fpc' = "returned"
    /\ \E o \in Batches(Outputs), t \in Batches(Values) :
          /\ Len(o) = Len(t)
          /\ fOutputs' = o
          /\ fTargets' = t
          /\ fWeights' = Weights(t)
          /\ fLoss' = Mean(WeightedSquaredDiff(Weights(t), SquaredDiff(o, t)))
    /\ UNCHANGED <<high_threshold, low_threshold, high_weight, low_weight,
                   very_low_weight>>
    /\ UNCHANGED <<trainVars, permVars, overlapVars>>

Called == 1..Len(fTargets)

\* the weight the specification gives a target
BandWeight(t) ==
    IF t > high_threshold THEN high_weight
    ELSE IF t < low_threshold THEN very_low_weight
    ELSE low_weight

\* C3 as stated: the weight of an element is high_weight if its target is above
\* high_threshold, very_low_weight if it is below low_threshold and low_weight
\* otherwise; a target equal to either threshold gets low_weight, whatever the
\* thresholds and weights are; the weight depends on the target only.
C3_AsStated ==
    \A i \in Called :
        /\ fWeights[i] = BandWeight(fTargets[i])
        /\ (fTargets[i] = high_threshold \/ fTargets[i] = low_threshold) =>
              fWeights[i] = low_weight

\* C3 amended: the weight of an element is high_weight if its target is above
\* high_threshold, otherwise very_low_weight if it is below low_threshold, and
\* low_weight otherwise; a target equal to high_threshold gets low_weight
\* unless it is below low_threshold, and then very_low_weight; a target equal
\* to low_threshold gets low_weight unless it is above high_threshold, and
\* then high_weight; with low_threshold <= high_threshold both boundary values
\* get low_weight; the weight depends on the target only.
C3_Weights ==
    \A i \in Called :
        LET t == fTargets[i]
            w == fWeights[i]
        IN  /\ t > high_threshold => w = high_weight
            /\ (t < low_threshold /\ ~(t > high_threshold)) => w = very_low_weight
            /\ (~(t > high_threshold) /\ ~(t < low_threshold)) => w = low_weight
            /\ t = high_threshold =>
                  w = IF t < low_threshold THEN very_low_weight ELSE low_weight
            /\ t = low_threshold =>
                  w = IF t > high_threshold THEN high_weight ELSE low_weight
            /\ (low_threshold <= high_threshold
                   /\ (t = high_threshold \/ t = low_threshold)) => w = low_weight
            /\ \A j \in Called : fTargets[j] = t => fWeights[j] = w

\* a call with distinct weights, a target on a threshold and a target beyond it
C3_Witness ==
    /\ high_weight # low_weight
    /\ low_weight # very_low_weight
    /\ low_threshold < high_threshold
    /\ \E i, j \in Called :
          /\ fTargets[i] = high_threshold
          /\ fWeights[i] = low_weight
          /\ fTargets[j] > high_threshold
          /\ fWeights[j] = high_weight
          /\ fOutputs[i] # fOutputs[j]

RECURSIVE SumSquares(_, _, _)
SumSquares(o, t, n) ==
    IF n = 0 THEN 0
    ELSE SumSquares(o, t, n - 1) + (o[n] - t[n]) * (o[n] - t[n])

\* C9: with high_weight = low_weight = very_low_weight = 1 the loss is the
\* plain mean squared error, the sum of the squared differences divided by the
\* batch length, whatever the two thresholds are.
C9_PlainMSE ==
    (Called # {} /\ high_weight = 1 /\ low_weight = 1 /\ very_low_weight = 1) =>
        /\ IsFinite(fLoss)
        /\ fLoss.n * Len(fTargets) = SumSquares(fOutputs, fTargets, Len(fTargets)) * fLoss.d

\* a call with unit weights whose targets lie in all three bands, errors above 1
C9_Witness ==
    /\ high_weight = 1 /\ low_weight = 1 /\ very_low_weight = 1
    /\ \E i, j \in Called :
          /\ fTargets[i] > high_threshold
          /\ fTargets[j] < low_threshold
          /\ fTargets[j] - fOutputs[j] >= 2
          /\ fTargets[i] - fOutputs[i] >= 2
    /\ fLoss.n > fLoss.d

(***************************************************************************)
(* train_model                                                             *)
(***************************************************************************)

PrintEvery == 100

\* the validation losses of the example run of the specification
ExampleLosses == <<Fin(5), Fin(3), Fin(4), Fin(2)>>

SeqRange(s) == {s[i] : i \in 1..Len(s)}

\* runs with few epochs and any batch losses, finite or not
ShortRuns ==
    [epochs : 0..MaxEpochs, nTrain : 1..MaxTrainBatches, nVal : 1..MaxValBatches,
     trainVals : {{Fin(1), Fin(2)}}, valVals : {{Fin(1), Fin(2), Inf, NaN}}]

\* runs as long as the example, over the example's loss values
ExampleRuns ==
    [epochs : {Len(ExampleLosses)}, nTrain : {1}, nVal : {1},
     trainVals : {{Fin(1)}}, valVals : {SeqRange(ExampleLosses)}]

\* runs long enough to reach the progress lines
LongRuns ==
    [epochs : {PrintEvery, 2 * PrintEvery + 1}, nTrain : {1}, nVal : {1},
     trainVals : {{Fin(2)}}, valVals : {{Fin(1)}}]

NoOutputs == [batch |-> <<0, 0>>, params |-> 0]

TrainInit ==
    /\ \E r \in ShortRuns \cup ExampleRuns \cup LongRuns :
          /\ epochs = r.epochs
          /\ nTrain = r.nTrain
          /\ nVal = r.nVal
          /\ trainVals = r.trainVals
          /\ valVals = r.valVals
    /\ pc = "epoch"
    /\ epoch = 0
    /\ tb = 0
    /\ vb = 0
    /\ mode \in {"train", "eval"}
    /\ params = 0
    /\ outputs = NoOutputs
    /\ grad = {}
    /\ applied = {}
    /\ loss = Zero
    /\ val_loss = Zero
    /\ best_val_loss = Inf
    /\ files = {}
    /\ out = <<>>
    /\ hist = <<>>
    /\ saves = {}
    /\ trainLoss = Zero

\* train_model is not running
TrainIdle ==
    /\ pc = "off"
    /\ epochs = 0
    /\ nTrain = 1
    /\ nVal = 1
    /\ trainVals = {}
    /\ valVals = {}
    /\ epoch = 0
    /\ tb = 0
    /\ vb = 0
    /\ mode = "train"
    /\ params = 0
    /\ outputs = NoOutputs
    /\ grad = {}
    /\ applied = {}
    /\ loss = Zero
    /\ val_loss = Zero
    /\ best_val_loss = Inf
    /\ files = {}
    /\ out = <<>>
    /\ hist = <<>>
    /\ saves = {}
    /\ trainLoss = Zero

\* zero_grad() left out: the accumulators keep what they hold
KeepGrad(g) == g

\* line 45: optimizer.zero_grad()
ZeroGradResult(g) == {}

\* line 46: loss.backward() adds the batch's gradients to the accumulators
BackwardResult(g, b) == g \cup {b}

\* val_loss <= best_val_loss in place of <
ImprovedOrEqual(v, best) == FLt(v, best) \/ FEq(v, best)

\* line 59: val_loss < best_val_loss
Improved(v, best) == FLt(v, best)

\* best_val_loss left as it was
KeepBest(v, best) == best

\* line 60: best_val_loss = val_loss
NewBest(v, best) == v

\* line 63: (epoch + 1) % 100 == 0
PrintDue(e) == (e + 1) % PrintEvery = 0

\* line 64: the progress line
ProgressLine(e, n, l, v) ==
    [epoch |-> e + 1, epochs |-> n, loss |-> Fmt4(l), val |-> Fmt4(v)]

\* lines 39-40: for epoch in range(epochs): model.train()
EpochStart ==
    /\ pc = "epoch"
    /\ IF epoch < epochs
       THEN /\ mode' = "train"
            /\ tb' = 0
            /\ pc' = "batch"
       ELSE /\ pc' = "done"
            /\ UNCHANGED <<mode, tb>>
    /\ UNCHANGED <<lossVars, permVars, overlapVars>>
    /\ UNCHANGED <<epochs, nTrain, nVal, trainVals, valVals, epoch, vb, params,
                   outputs, grad, applied, loss, val_loss, best_val_loss, files,
                   out, hist, saves, trainLoss>>

\* line 41: for inputs, targets in train_loader
NextBatch ==
    /\ pc = "batch"
    /\ pc' = IF tb < nTrain THEN "forward" ELSE "eval"
    /\ UNCHANGED <<lossVars, permVars, overlapVars>>
    /\ UNCHANGED <<epochs, nTrain, nVal, trainVals, valVals, epoch, tb, vb, mode,
                   params, outputs, grad, applied, loss, val_loss, best_val_loss,
                   files, out, hist, saves, trainLoss>>

\* line 42: outputs = model(inputs)
Forward ==
    /\ pc = "forward"
    /\ outputs' = [batch |-> <<epoch, tb>>, params |-> params]
    /\ pc' = "loss"
    /\ UNCHANGED <<lossVars, permVars, overlapVars>>
    /\ UNCHANGED <<epochs, nTrain, nVal, trainVals, valVals, epoch, tb, vb, mode,
                   params, grad, applied, loss, val_loss, best_val_loss, files,
                   out, hist, saves, trainLoss>>

\* line 43: loss = criterion(outputs, targets)
TrainLoss ==
    /\ pc = "loss"
    /\ \E l \in trainVals :
          /\ loss' = l
          /\ trainLoss' = l
    /\ pc' = "zero_grad"
    /\ UNCHANGED <<lossVars, permVars, overlapVars>>
    /\ UNCHANGED <<epochs, nTrain, nVal, trainVals, valVals, epoch, tb, vb, mode,
                   params, outputs, grad, applied, val_loss, best_val_loss, files,
                   out, hist, saves>>

\* line 45: optimizer.zero_grad()
ZeroGrad ==
    /\ pc = "zero_grad"
    /\ grad' = ZeroGradResult(grad)
    /\ pc' = "backward"
    /\ UNCHANGED <<lossVars, permVars, overlapVars>>
    /\ UNCHANGED <<epochs, nTrain, nVal, trainVals, valVals, epoch, tb, vb, mode,
                   params, outputs, applied, loss, val_loss, best_val_loss, files,
                   out, hist, saves, trainLoss>>

\* line 46: loss.backward()
Backward ==
    /\ pc = "backward"
    /\ grad' = BackwardResult(grad, outputs.batch)
    /\ pc' = "step"
    /\ UNCHANGED <<lossVars, permVars, overlapVars>>
    /\ UNCHANGED <<epochs, nTrain, nVal, trainVals, valVals, epoch, tb, vb, mode,
                   params, outputs, applied, loss, val_loss, best_val_loss, files,
                   out, hist, saves, trainLoss>>

\* line 47: optimizer.step(), then on to the next batch
Step ==
    /\ pc = "step"
    /\ params' = params + 1
    /\ applied' = grad
    /\ tb' = tb + 1
    /\ pc' = "batch"
    /\ UNCHANGED <<lossVars, permVars, overlapVars>>
    /\ UNCHANGED <<epochs, nTrain, nVal, trainVals, valVals, epoch, vb, mode,
                   outputs, grad, loss, val_loss, best_val_loss, files, out, hist,
                   saves, trainLoss>>

\* lines 50-52: model.eval(); val_loss = 0.0; with torch.no_grad()
EvalStart ==
    /\ pc = "eval"
    /\ mode' = "eval"
    /\ val_loss' = Zero
    /\ vb' = 0
    /\ pc' = "val_batch"
    /\ UNCHANGED <<lossVars, permVars, overlapVars>>
    /\ UNCHANGED <<epochs, nTrain, nVal, trainVals, valVals, epoch, tb, params,
                   outputs, grad, applied, loss, best_val_loss, files, out, hist,
                   saves, trainLoss>>

\* lines 53-56: one validation batch: outputs, loss, val_loss += loss.item()
ValBatch ==
    /\ pc = "val_batch"
    /\ vb < nVal
    /\ outputs' = [batch |-> <<epoch, nTrain + vb>>, params |-> params]
    /\ \E l \in valVals :
          /\ loss' = l
          /\ val_loss' = FAdd(val_loss, l)
    /\ vb' = vb + 1
    /\ UNCHANGED <<lossVars, permVars, overlapVars>>
    /\ UNCHANGED <<pc, epochs, nTrain, nVal, trainVals, valVals, epoch, tb, mode,
                   params, grad, applied, best_val_loss, files, out, hist, saves,
                   trainLoss>>

\* line 58: val_loss /= len(val_loader)
ValMean ==
    /\ pc = "val_batch"
    /\ vb = nVal
    /\ val_loss' = FDivInt(val_loss, nVal)
    /\ pc' = "check"
    /\ UNCHANGED <<lossVars, permVars, overlapVars>>
    /\ UNCHANGED <<epochs, nTrain, nVal, trainVals, valVals, epoch, tb, vb, mode,
                   params, outputs, grad, applied, loss, best_val_loss, files, out,
                   hist, saves, trainLoss>>

\* lines 59-61: keep the checkpoint of the best epoch
Checkpoint ==
    /\ pc = "check"
    /\ IF Improved(val_loss, best_val_loss)
       THEN /\ best_val_loss' = NewBest(val_loss, best_val_loss)
            /\ files' = {params}
            /\ saves' = saves \cup {epoch + 1}
       ELSE UNCHANGED <<best_val_loss, files, saves>>
    /\ hist' = Append(hist, [val |-> val_loss, params |-> params])
    /\ pc' = "print"
    /\ UNCHANGED <<lossVars, permVars, overlapVars>>
    /\ UNCHANGED <<epochs, nTrain, nVal, trainVals, valVals, epoch, tb, vb, mode,
                   params, outputs, grad, applied, loss, val_loss, out, trainLoss>>

\* lines 63-64: the progress line, then the next epoch
Progress ==
    /\ pc = "print"
    /\ out' = IF PrintDue(epoch)
              THEN Append(out, ProgressLine(epoch, epochs, loss, val_loss))
              ELSE out
    /\ epoch' = epoch + 1
    /\ pc' = "epoch"
    /\ UNCHANGED <<lossVars, permVars, overlapVars>>
    /\ UNCHANGED <<epochs, nTrain, nVal, trainVals, valVals, tb, vb, mode, params,
                   outputs, grad, applied, loss, val_loss, best_val_loss, files,
                   hist, saves, trainLoss>>

TrainNext ==
    \/ EpochStart
    \/ NextBatch
    \/ Forward
    \/ TrainLoss
    \/ ZeroGrad
    \/ Backward
    \/ Step
    \/ EvalStart
    \/ ValBatch
    \/ ValMean
    \/ Checkpoint
    \/ Progress

(***************************************************************************)
(* Properties of train_model                                               *)
(***************************************************************************)
Done == 1..Len(hist)

ValOf(k) == hist[k].val

\* C1 as stated: the checkpoint is written at epoch k if and only if the mean
\* validation loss of epoch k is strictly less than that of every earlier
\* epoch, so the first epoch always writes.
C1_AsStated ==
    \A k \in Done : (k \in saves) <=> (\A j \in 1..(k - 1) : FLt(ValOf(k), ValOf(j)))

\* C1 amended: the checkpoint is written at epoch k if and only if the mean
\* validation loss of epoch k is finite (neither inf nor NaN) and strictly less
\* than that of every earlier epoch whose loss is not NaN; the first epoch
\* writes exactly when its loss is finite; an equal or higher loss never
\* writes; the losses 5, 3, 4, 2 write at epochs 1, 2 and 4 and not at 3.
C1_Writes ==
    /\ \A k \in Done :
          (k \in saves) <=>
             /\ IsFinite(ValOf(k))
             /\ \A j \in 1..(k - 1) : IsNaN(ValOf(j)) \/ FLt(ValOf(k), ValOf(j))
    /\ \A k \in saves : \A j \in 1..(k - 1) :
          ~(FEq(ValOf(k), ValOf(j)) \/ FLt(ValOf(j), ValOf(k)))
    /\ (1 \in Done) => ((1 \in saves) <=> IsFinite(ValOf(1)))
    /\ [k \in Done |-> ValOf(k)] = ExampleLosses => saves = {1, 2, 4}

\* the example run has finished
C1_Witness ==
    /\ pc = "done"
    /\ [k \in Done |-> ValOf(k)] = ExampleLosses
    /\ saves = {1, 2, 4}

\* epochs whose loss no epoch so far undercuts
Lowest == {k \in Done : \A j \in Done : ~FLt(ValOf(j), ValOf(k))}

Earliest(S) == CHOOSE k \in S : \A j \in S : k <= j

C6_AsStated ==
    (pc = "epoch" /\ epoch > 0) =>
        /\ Len(out) = epoch \div PrintEvery
        /\ (epoch % PrintEvery = 0) =>
              out[Len(out)] = [epoch |-> epoch, epochs |-> epochs,
                               loss |-> Fmt4(trainLoss), val |-> Fmt4(val_loss)]

\* what the code prints: a line exactly at the multiples of 100, showing the loss
\* of the last validation batch of the epoch, which line 55 left in loss
ProgressShowsLastValidationLoss ==
    (pc = "epoch" /\ epoch > 0) =>
        /\ Len(out) = epoch \div PrintEvery
        /\ (epoch % PrintEvery = 0) =>
              out[Len(out)] = [epoch |-> epoch, epochs |-> epochs,
                               loss |-> Fmt4(loss), val |-> Fmt4(val_loss)]

TrainingPcs == {"batch", "forward", "loss", "zero_grad", "backward", "step"}
ValidationPcs == {"val_batch", "check", "print"}

\* C10: every training batch is forwarded, its loss computed, the gradients
\* reset, computed and applied by exactly one optimizer step, in that order,
\* so a step applies the gradients of the current batch only; all training
\* batches run in training mode before the validation pass, which runs in
\* inference mode without optimizer step or gradient computation; the run
\* performs exactly `epochs` epochs and then stops.
C10_EpochOrder ==
    /\ pc \in TrainingPcs =>
          /\ mode = "train"
          /\ params = epoch * nTrain + tb
    /\ pc \in {"loss", "zero_grad", "backward", "step"} =>
          outputs = [batch |-> <<epoch, tb>>, params |-> params]
    /\ pc = "backward" => grad = {}
    /\ pc = "step" => grad = {<<epoch, tb>>}
    /\ (pc = "batch" /\ tb > 0) => applied = {<<epoch, tb - 1>>}
    /\ pc \in ValidationPcs =>
          /\ mode = "eval"
          /\ tb = nTrain
          /\ params = (epoch + 1) * nTrain
          /\ grad = {<<epoch, nTrain - 1>>}
          /\ applied = grad
    /\ pc = "done" =>
          /\ epoch = epochs
          /\ Len(hist) = epochs
          /\ params = epochs * nTrain
          /\ ~ENABLED TrainNext
    /\ pc # "done" => ENABLED TrainNext

\* a run of several epochs of several batches has finished
C10_Witness ==
    /\ pc = "done"
    /\ epochs >= 2
    /\ nTrain >= 2
    /\ nVal >= 2
    /\ params = epochs * nTrain


(***************************************************************************)
(* permutation_importance                                                  *)
(***************************************************************************)
Buffers == {"caller", "copy"}
CellValues == {0, 1}

Matrices(nr, nc) == [1..nr -> [1..nc -> CellValues]]

\* target vectors: all zero, or the row number
TargetsOf(nr) == {[r \in 1..nr |-> 0], [r \in 1..nr |-> r]}

Perms(n) == {p \in [1..n -> 1..n] : \A i, j \in 1..n : p[i] = p[j] => i = j}

\* X[:, c]
Column(m, c) == [r \in 1..Len(m) |-> m[r][c]]

\* X[:, c] = v
SetColumn(m, c, v) == [r \in 1..Len(m) |-> [m[r] EXCEPT ![c] = v[r]]]

RECURSIVE Dot(_, _)
Dot(row, n) == IF n = 0 THEN 0 ELSE Dot(row, n - 1) + n * row[n]

\* lines 53, 63: model(torch.tensor(X)): a linear model with coefficients 1, 2, ...
Model(m) == [r \in 1..Len(m) |-> Dot(m[r], Len(m[r]))]

\* lines 51, 53, 63: metric, by default mean_squared_error
Metric(y, pred) == [k |-> "fin", n |-> SumSquares(pred, y, Len(y)), d |-> Len(y)]

\* a - b on finite floats
FSub(a, b) == Ratio(a.n * b.d - b.n * a.d, a.d * b.d)

\* X_test_copy = X_test: a second name for the caller's buffer
AliasBuffer == "caller"

\* line 52: X_test.copy() allocates a buffer of its own
CopyBuffer == "copy"

\* the restore left out
NoRestore(m, c, v) == m

\* line 69: X_test_copy[:, col] = original_feature
RestoreColumn(m, c, v) == SetColumn(m, c, v)

PermInit ==
    /\ \E nr \in 1..MaxRows, nc \in 1..MaxCols :
          \E X \in Matrices(nr, nc), y \in TargetsOf(nr) :
              /\ mem = [b \in Buffers |-> IF b = "caller" THEN X ELSE <<>>]
              /\ X0 = X
              /\ y_test = y
    /\ ppc = "copy"
    /\ X_test_copy = "none"
    /\ baseline_score = Zero
    /\ col = 0
    /\ original_feature = <<>>
    /\ shuffled_score = Zero
    /\ importance = Zero
    /\ importances = <<>>
    /\ scored = <<>>
    /\ result = <<>>

\* permutation_importance is not running
PermIdle ==
    /\ ppc = "off"
    /\ mem = [b \in Buffers |-> <<>>]
    /\ X0 = <<>>
    /\ y_test = <<>>
    /\ X_test_copy = "none"
    /\ baseline_score = Zero
    /\ col = 0
    /\ original_feature = <<>>
    /\ shuffled_score = Zero
    /\ importance = Zero
    /\ importances = <<>>
    /\ scored = <<>>
    /\ result = <<>>

\* line 52: X_test_copy = X_test.copy()
P_Copy ==
    /\ ppc = "copy"
    /\ X_test_copy' = CopyBuffer
    /\ mem' = [mem EXCEPT ![CopyBuffer] = mem["caller"]]
    /\ ppc' = "baseline"
    /\ UNCHANGED <<X0, y_test, baseline_score, col, original_feature,
                   shuffled_score, importance, importances, scored, result>>
    /\ UNCHANGED <<lossVars, trainVars, overlapVars>>

\* lines 53-54: baseline_score on X_test; importances = []
P_Baseline ==
    /\ ppc = "baseline"
    /\ baseline_score' = Metric(y_test, Model(mem["caller"]))
    /\ importances' = <<>>
    /\ col' = 0
    /\ ppc' = "loop"
    /\ UNCHANGED <<mem, X_test_copy, X0, y_test, original_feature, shuffled_score,
                   importance, scored, result>>
    /\ UNCHANGED <<lossVars, trainVars, overlapVars>>

\* line 55: for col in range(X_test_copy.shape[1]); line 73 when exhausted
P_Loop ==
    /\ ppc = "loop"
    /\ IF col < Len(mem[X_test_copy][1])
       THEN /\ ppc' = "save"
            /\ UNCHANGED result
       ELSE /\ ppc' = "returned"
            /\ result' = importances
    /\ UNCHANGED <<mem, X_test_copy, X0, y_test, baseline_score, col,
                   original_feature, shuffled_score, importance, importances,
                   scored>>
    /\ UNCHANGED <<lossVars, trainVars, overlapVars>>

\* line 57: original_feature = X_test_copy[:, col].copy()
P_Save ==
    /\ ppc = "save"
    /\ original_feature' = Column(mem[X_test_copy], col + 1)
    /\ ppc' = "shuffle"
    /\ UNCHANGED <<mem, X_test_copy, X0, y_test, baseline_score, col,
                   shuffled_score, importance, importances, scored, result>>
    /\ UNCHANGED <<lossVars, trainVars, overlapVars>>

\* line 60: np.random.shuffle(X_test_copy[:, col]) permutes the column in place
P_Shuffle ==
    /\ ppc = "shuffle"
    /\ \E p \in Perms(Len(mem[X_test_copy])) :
          LET old == Column(mem[X_test_copy], col + 1)
              new == [r \in 1..Len(old) |-> old[p[r]]]
          IN  mem' = [mem EXCEPT ![X_test_copy] = SetColumn(@, col + 1, new)]
    /\ ppc' = "score"
    /\ UNCHANGED <<X_test_copy, X0, y_test, baseline_score, col, original_feature,
                   shuffled_score, importance, importances, scored, result>>
    /\ UNCHANGED <<lossVars, trainVars, overlapVars>>

\* lines 63-66: shuffled_score on X_test_copy; importance
P_Score ==
    /\ ppc = "score"
    /\ shuffled_score' = Metric(y_test, Model(mem[X_test_copy]))
    /\ importance' = FSub(shuffled_score', baseline_score)
    /\ scored' = Append(scored, mem[X_test_copy])
    /\ ppc' = "restore"
    /\ UNCHANGED <<mem, X_test_copy, X0, y_test, baseline_score, col,
                   original_feature, importances, result>>
    /\ UNCHANGED <<lossVars, trainVars, overlapVars>>

\* line 69: X_test_copy[:, col] = original_feature
P_Restore ==
    /\ ppc = "restore"
    /\ mem' = [mem EXCEPT ![X_test_copy] = RestoreColumn(@, col + 1, original_feature)]
    /\ ppc' = "append"
    /\ UNCHANGED <<X_test_copy, X0, y_test, baseline_score, col, original_feature,
                   shuffled_score, importance, importances, scored, result>>
    /\ UNCHANGED <<lossVars, trainVars, overlapVars>>

\* line 71: importances.append(importance); next column
P_Append ==
    /\ ppc = "append"
    /\ importances' = Append(importances, importance)
    /\ col' = col + 1
    /\ ppc' = "loop"
    /\ UNCHANGED <<mem, X_test_copy, X0, y_test, baseline_score, original_feature,
                   shuffled_score, importance, scored, result>>
    /\ UNCHANGED <<lossVars, trainVars, overlapVars>>

PermNext ==
    \/ P_Copy
    \/ P_Baseline
    \/ P_Loop
    \/ P_Save
    \/ P_Shuffle
    \/ P_Score
    \/ P_Restore
    \/ P_Append

(***************************************************************************)
(* Properties of permutation_importance                                    *)
(***************************************************************************)
\* C4: the caller's matrix X_test is never changed: throughout the call and
\* after it every cell equals its value before the call, whatever the
\* shuffles do, because the shuffles act on a buffer of their own.
C4_CallerUnchanged ==
    /\ mem["caller"] = X0
    /\ ppc \notin {"copy", "off"} => X_test_copy # "caller"

\* the call returned after a shuffle that changed the working matrix
C4_Witness ==
    /\ ppc = "returned"
    /\ \E i \in 1..Len(scored) : scored[i] # X0
    /\ mem["caller"] = X0

Count(v, x) == Cardinality({r \in 1..Len(v) : v[r] = x})

IsPermutation(v, w) ==
    /\ Len(v) = Len(w)
    /\ \A x \in CellValues : Count(v, x) = Count(w, x)

\* C5: the score of column i is computed on a matrix that equals the original
\* in every other column and whose column i is a permutation of the original
\* column; the working matrix is the original again before the next column is
\* processed; the result has one entry per column, entry i being the shuffled
\* score of column i minus the baseline score of the unperturbed matrix.
C5_OneColumn ==
    /\ \A i \in 1..Len(scored) :
          /\ \A c \in 1..Len(X0[1]) :
                c # i => Column(scored[i], c) = Column(X0, c)
          /\ IsPermutation(Column(scored[i], i), Column(X0, i))
    /\ ppc \in {"loop", "save", "returned"} => mem[X_test_copy] = X0
    /\ ppc \in {"save", "shuffle"} => Len(scored) = col
    /\ ppc = "returned" =>
          /\ Len(result) = Len(X0[1])
          /\ Len(scored) = Len(X0[1])
          /\ \A i \in 1..Len(result) :
                result[i] = FSub(Metric(y_test, Model(scored[i])),
                                 Metric(y_test, Model(X0)))

\* the call returned with every one of several columns scored on a changed
\* matrix, and the scores differ from the baseline
C5_Witness ==
    /\ ppc = "returned"
    /\ Len(result) >= 2
    /\ \A i \in 1..Len(scored) : scored[i] # X0
    /\ \E i \in 1..Len(result) : result[i].n # 0

(***************************************************************************)
(* plot_distribution                                                       *)
(***************************************************************************)
NumBins == 30

\* edges are held in units of 1/EdgeUnit, which makes every edge an integer
EdgeUnit == 2 * NumBins

Samples == UNION {[1..n -> 0..MaxSampleValue] : n \in 1..MaxSamples}

RECURSIVE MinTo(_, _)
MinTo(a, n) ==
    IF n = 1 THEN a[1]
    ELSE LET m == MinTo(a, n - 1) IN IF a[n] < m THEN a[n] ELSE m

RECURSIVE MaxTo(_, _)
MaxTo(a, n) ==
    IF n = 1 THEN a[1]
    ELSE LET m == MaxTo(a, n - 1) IN IF a[n] > m THEN a[n] ELSE m

\* np.histogram with bins=30: the range is (min, max), widened by 0.5 on each
\* side when min = max; the edges are linspace(first, last, 31)
BinEdges(a) ==
    LET lo == MinTo(a, Len(a))
        hi == MaxTo(a, Len(a))
        first == IF lo = hi THEN EdgeUnit * lo - NumBins ELSE EdgeUnit * lo
        last == IF lo = hi THEN EdgeUnit * hi + NumBins ELSE EdgeUnit * hi
    IN  [i \in 1..(NumBins + 1) |-> first + (i - 1) * ((last - first) \div NumBins)]

\* np.histogram: bin i is [edge i, edge i+1), the last bin is closed
InBin(x, e, i) ==
    /\ e[i] <= EdgeUnit * x
    /\ \/ EdgeUnit * x < e[i + 1]
       \/ i = Len(e) - 1 /\ EdgeUnit * x = e[i + 1]

\* np.histogram: the counts per bin of the values that fall inside the edges
Counts(a, e) ==
    [i \in 1..(Len(e) - 1) |-> Cardinality({j \in 1..Len(a) : InBin(a[j], e, i)})]

\* a / b on non-negative floats: 0/0 is NaN, x/0 is inf
FDiv(a, b) ==
    IF IsNaN(a) \/ IsNaN(b) THEN NaN
    ELSE IF a.k = "inf" THEN (IF b.k = "inf" THEN NaN ELSE Inf)
    ELSE IF b.k = "inf" THEN Zero
    ELSE IF b.n = 0 THEN (IF a.n = 0 THEN NaN ELSE Inf)
    ELSE Ratio(a.n * b.d, a.d * b.n)

\* a * b on non-negative floats
FMul(a, b) ==
    IF IsNaN(a) \/ IsNaN(b) THEN NaN
    ELSE IF a.k = "inf" \/ b.k = "inf"
         THEN (IF (a.k = "fin" /\ a.n = 0) \/ (b.k = "fin" /\ b.n = 0) THEN NaN ELSE Inf)
    ELSE Ratio(a.n * b.n, a.d * b.d)

\* np.minimum on two elements: NaN if either is NaN
FMin(a, b) ==
    IF IsNaN(a) \/ IsNaN(b) THEN NaN
    ELSE IF FLt(b, a) THEN b ELSE a

\* np.diff(bins)
Diff(e) == [i \in 1..(Len(e) - 1) |-> [k |-> "fin", n |-> e[i + 1] - e[i], d |-> EdgeUnit]]

\* np.histogram with density=True: n / db / n.sum()
Density(n, e) ==
    [i \in 1..Len(n) |-> FDiv(FDiv(Fin(n[i]), Diff(e)[i]), Fin(Sum(n)))]

RECURSIVE FSumTo(_, _)
FSumTo(v, n) == IF n = 0 THEN Zero ELSE FAdd(FSumTo(v, n - 1), v[n])

\* line 110: np.sum(np.minimum(hist_actual, hist_pred) * np.diff(bins))
Overlap(ha, hp, e) ==
    FSumTo([i \in 1..Len(ha) |-> FMul(FMin(ha[i], hp[i]), Diff(e)[i])], Len(ha))

OverlapInit ==
    /\ actual \in Samples
    /\ predicted \in Samples
    /\ opc = "plot"
    /\ bins = <<>>
    /\ hist_actual = <<>>
    /\ hist_pred = <<>>
    /\ overlap = Zero
    /\ plots = {}
    /\ printed = <<>>

\* plot_distribution is not running
OverlapIdle ==
    /\ actual = <<>>
    /\ predicted = <<>>
    /\ opc = "off"
    /\ bins = <<>>
    /\ hist_actual = <<>>
    /\ hist_pred = <<>>
    /\ overlap = Zero
    /\ plots = {}
    /\ printed = <<>>

\* lines 97-105: the density plot, saved to results_path
O_Plot ==
    /\ opc = "plot"
    /\ plots' = plots \cup {"distribution_curve.png"}
    /\ opc' = "hist_actual"
    /\ UNCHANGED <<actual, predicted, bins, hist_actual, hist_pred, overlap, printed>>
    /\ UNCHANGED <<lossVars, trainVars, permVars>>

\* line 108: hist_actual, bins = np.histogram(y_test, bins=30, density=True)
O_HistActual ==
    /\ opc = "hist_actual"
    /\ bins' = BinEdges(actual)
    /\ hist_actual' = Density(Counts(actual, bins'), bins')
    /\ opc' = "hist_pred"
    /\ UNCHANGED <<actual, predicted, hist_pred, overlap, plots, printed>>
    /\ UNCHANGED <<lossVars, trainVars, permVars>>

\* line 109: hist_pred, _ = np.histogram(y_test_pred, bins=bins, density=True)
O_HistPred ==
    /\ opc = "hist_pred"
    /\ hist_pred' = Density(Counts(predicted, bins), bins)
    /\ opc' = "overlap"
    /\ UNCHANGED <<actual, predicted, bins, hist_actual, overlap, plots, printed>>
    /\ UNCHANGED <<lossVars, trainVars, permVars>>

\* lines 110-114: overlap, printed and returned
O_Overlap ==
    /\ opc = "overlap"
    /\ overlap' = Overlap(hist_actual, hist_pred, bins)
    /\ printed' = Append(printed, Fmt4(overlap'))
    /\ opc' = "returned"
    /\ UNCHANGED <<actual, predicted, bins, hist_actual, hist_pred, plots>>
    /\ UNCHANGED <<lossVars, trainVars, permVars>>

OverlapNext ==
    \/ O_Plot
    \/ O_HistActual
    \/ O_HistPred
    \/ O_Overlap

(***************************************************************************)
(* Properties of plot_distribution                                         *)
(***************************************************************************)
\* no predicted value falls inside the bins built from the actual sample
Disjoint ==
    \A j \in 1..Len(predicted) :
        \/ EdgeUnit * predicted[j] < bins[1]
        \/ EdgeUnit * predicted[j] > bins[NumBins + 1]

\* C7: the overlap is 0.0 whenever no predicted value falls inside the 30 bins
\* built from the range of the actual sample.
C7_AsStated ==
    (opc = "returned" /\ Disjoint) => FEq(overlap, Zero)

\* C8: the overlap is 1.0 when the predicted sample is identical to the actual
\* sample, and the overlap lies in [0, 1] for all inputs.
C8_AsStated ==
    opc = "returned" =>
        /\ predicted = actual => FEq(overlap, Fin(1))
        /\ ~IsNaN(overlap)
        /\ ~FLt(overlap, Zero)
        /\ ~FLt(Fin(1), overlap)

\* the part of C8 that the code satisfies: identical samples overlap by 1, and
\* the overlap lies in [0, 1] when some predicted value falls inside the bins
OverlapInRange ==
    opc = "returned" =>
        /\ predicted = actual => FEq(overlap, Fin(1))
        /\ ~Disjoint => (~IsNaN(overlap) /\ ~FLt(overlap, Zero) /\ ~FLt(Fin(1), overlap))
        /\ Disjoint => IsNaN(overlap)

(***************************************************************************)
(* Specifications                                                          *)
(***************************************************************************)
\* a run of train_model
Init == TrainInit /\ LossIdle /\ PermIdle /\ OverlapIdle

Spec == Init /\ [][TrainNext]_vars

\* a call of WeightedMSELoss.forward on a constructed module
InitLoss == LossInit /\ TrainIdle /\ PermIdle /\ OverlapIdle

SpecLoss == InitLoss /\ [][LossForward]_vars

\* a call of permutation_importance
InitPerm == PermInit /\ LossIdle /\ TrainIdle /\ OverlapIdle

SpecPerm == InitPerm /\ [][PermNext]_vars

\* a call of plot_distribution
InitOverlap == OverlapInit /\ LossIdle /\ TrainIdle /\ PermIdle

SpecOverlap == InitOverlap /\ [][OverlapNext]_vars
====
